---------------------------- MODULE Spec2Model ----------------------------
(***************************************************************************)
(* SafeURL Checker: the POST /api/check handler, the shared fetch, the     *)
(* four category evaluators (TLS, headers, cookies, WHOIS) and the         *)
(* aggregation of their results into one response.                         *)
(*                                                                         *)
(* Strings the code matches with regular expressions (header values,       *)
(* dates, cookie attributes) are represented by the class the code's test  *)
(* puts them in; day counts are integers.                                  *)
(***************************************************************************)
EXTENDS Integers, Sequences, FiniteSets, TLC

\* ------------------------------------------------------------------------
\* Program constants
\* ------------------------------------------------------------------------

MAX_SCORE == 25

PASSING_THRESHOLD == 18

\* ------------------------------------------------------------------------
\* Bounds of the model
\* ------------------------------------------------------------------------

\* Largest number of Set-Cookie entries in a response.
MaxCookies == 2

\* ------------------------------------------------------------------------
\* Helpers
\* ------------------------------------------------------------------------

Min(a, b) == IF a <= b THEN a ELSE b

Max(a, b) == IF a >= b THEN a ELSE b

RECURSIVE SumSeq(_)
SumSeq(s) == IF s = <<>> THEN 0 ELSE Head(s) + SumSeq(Tail(s))

\* Array.prototype.filter(Boolean) on a list of strings: drops the empty
\* (and undefined, represented as "") entries.
FilterBoolean(s) == SelectSeq(s, LAMBDA x : x /= "")

\* error.message of the faults the libraries raise; "" is a fault without text.
ErrMessages == {"", "ECONNRESET"}

\* The four tasks of the handler, in the order of the tasks array.
TaskKeys == <<"tls", "headers", "cookies", "whois">>

TaskLabels == <<"HTTPS & TLS", "Security Headers", "Cookie Security", "Domain WHOIS">>

Evaluators == {"tls", "headers", "cookies", "whois"}

LabelOf(key) ==
  CASE key = "tls"     -> "HTTPS & TLS"
    [] key = "headers" -> "Security Headers"
    [] key = "cookies" -> "Cookie Security"
    [] key = "whois"   -> "Domain WHOIS"

\* ------------------------------------------------------------------------
\* finalizeResult (the same function in all four evaluator modules)
\* ------------------------------------------------------------------------

\* Scores are integers throughout, so Math.round is the identity on them.
finalizeResultUnclamped(key, score, warnings, details) ==
  [ key      |-> key,
    label    |-> LabelOf(key),
    score    |-> Min(MAX_SCORE, score),
    maxScore |-> MAX_SCORE,
    passed   |-> Min(MAX_SCORE, score) >= PASSING_THRESHOLD,
    warnings |-> warnings,
    details  |-> details ]

finalizeResult(key, score, warnings, details) ==
  LET boundedScore == Max(0, Min(MAX_SCORE, score))
  IN  [ key      |-> key,
        label    |-> LabelOf(key),
        score    |-> boundedScore,
        maxScore |-> MAX_SCORE,
        passed   |-> boundedScore >= PASSING_THRESHOLD,
        warnings |-> warnings,
        details  |-> details ]

\* ------------------------------------------------------------------------
\* TLS evaluator: the secure-connect callback of checkTLS
\* ------------------------------------------------------------------------

\* What the socket reports once the handshake is done.
\*   throws   : socket.getPeerCertificate raises
\*   protocol : "none" (getProtocol gives null), "TLS" (name starts with
\*              TLS) or "SSL" (any other name)
\*   empty    : the certificate object is missing or has no keys
\*   issuer   : formatName(cert.issuer) is non-empty
\*   validTo  : "missing", "unparsable" (new Date gives NaN) or "date"
\*   days     : floor((validTo - now) / one day) when validTo = "date"
\*   san      : "absent", "match" (hostname listed), "mismatch", or
\*              "malformed" (not a string, so that .split raises)
ExpiryDays == {-1, 0, 7, 8, 30, 31, 90, 91}

Conns ==
  [ throws : BOOLEAN, protocol : {"none", "TLS", "SSL"}, empty : BOOLEAN,
    issuer : BOOLEAN, validTo : {"missing", "unparsable", "date"},
    days : ExpiryDays, san : {"absent", "match", "mismatch", "malformed"} ]

\* Lines 89-95: the negotiated protocol.
tlsProtocolStep(conn, acc) ==
  IF conn.protocol = "SSL"
  THEN [ score |-> acc.score - 10,
         warnings |-> Append(acc.warnings, "Insecure protocol negotiated: SSL") ]
  ELSE acc

\* Lines 101-107: issuer.
tlsIssuerStep(conn, acc) ==
  IF conn.issuer
  THEN acc
  ELSE [ score |-> acc.score - 3,
         warnings |-> Append(acc.warnings, "Certificate issuer information is incomplete.") ]

tlsExpiryStepNoForce(conn, acc) ==
  CASE conn.validTo = "missing" ->
         [ score |-> acc.score - 6,
           warnings |-> Append(acc.warnings, "Certificate expiration date is missing.") ]
    [] conn.validTo = "unparsable" ->
         [ score |-> acc.score - 4,
           warnings |-> Append(acc.warnings, "Unable to parse certificate expiration date.") ]
    [] conn.validTo = "date" /\ conn.days < 0 ->
         [ score |-> acc.score - 12,
           warnings |-> Append(acc.warnings, "Certificate is expired.") ]
    [] conn.validTo = "date" /\ conn.days >= 0 /\ conn.days <= 7 ->
         [ score |-> acc.score - 12,
           warnings |-> Append(acc.warnings, "Certificate expires within 7 days.") ]
    [] conn.validTo = "date" /\ conn.days > 7 /\ conn.days <= 30 ->
         [ score |-> acc.score - 8,
           warnings |-> Append(acc.warnings, "Certificate expires within 30 days.") ]
    [] conn.validTo = "date" /\ conn.days > 30 /\ conn.days <= 90 ->
         [ score |-> acc.score - 3,
           warnings |-> Append(acc.warnings, "Certificate expires within 90 days.") ]
    [] OTHER -> acc

\* Lines 125-153: expiration date.
tlsExpiryStep(conn, acc) ==
  CASE conn.validTo = "missing" ->
         [ score |-> acc.score - 6,
           warnings |-> Append(acc.warnings, "Certificate expiration date is missing.") ]
    [] conn.validTo = "unparsable" ->
         [ score |-> acc.score - 4,
           warnings |-> Append(acc.warnings, "Unable to parse certificate expiration date.") ]
    [] conn.validTo = "date" /\ conn.days < 0 ->
         [ score |-> 0,
           warnings |-> Append(acc.warnings, "Certificate is expired.") ]
    [] conn.validTo = "date" /\ conn.days >= 0 /\ conn.days <= 7 ->
         [ score |-> acc.score - 12,
           warnings |-> Append(acc.warnings, "Certificate expires within 7 days.") ]
    [] conn.validTo = "date" /\ conn.days > 7 /\ conn.days <= 30 ->
         [ score |-> acc.score - 8,
           warnings |-> Append(acc.warnings, "Certificate expires within 30 days.") ]
    [] conn.validTo = "date" /\ conn.days > 30 /\ conn.days <= 90 ->
         [ score |-> acc.score - 3,
           warnings |-> Append(acc.warnings, "Certificate expires within 90 days.") ]
    [] OTHER -> acc

\* Lines 155-167: subject alternative names.
tlsSanStep(conn, acc) ==
  IF conn.san = "mismatch"
  THEN [ score |-> acc.score - 5,
         warnings |-> Append(acc.warnings,
                        "Hostname is not explicitly listed in the certificate SAN entries.") ]
  ELSE acc

\* Lines 169-172: the catch of the callback.
tlsCatch(acc) ==
  [ score |-> Min(acc.score, 10),
    warnings |-> Append(acc.warnings, "TLS inspection failed.") ]

\* Lines 79-172: the score and warnings the callback hands to finalizeResult.
tlsInspect(conn) ==
  LET start == [ score |-> MAX_SCORE, warnings |-> <<>> ]
  IN  IF conn.throws
      THEN tlsCatch(start)
      ELSE LET p == tlsProtocolStep(conn, start)
           IN  IF conn.empty
               THEN [ score |-> Min(p.score, 5),
                      warnings |-> Append(p.warnings, "Unable to read TLS certificate details.") ]
               ELSE LET e == tlsExpiryStep(conn, tlsIssuerStep(conn, p))
                    IN  IF conn.san = "malformed" THEN tlsCatch(e) ELSE tlsSanStep(conn, e)

\* Lines 81-171: the details the callback has filled in; a field the code
\* leaves out is "absent" here.
tlsDetails(conn) ==
  LET read == ~conn.throws
      cert == read /\ ~conn.empty
      dated == cert /\ conn.validTo = "date"
  IN  [ host |-> "host", port |-> 443,
        protocol |-> IF read /\ conn.protocol /= "none" THEN conn.protocol ELSE "absent",
        issuer |-> IF cert /\ conn.issuer THEN "issuer" ELSE "absent",
        validTo |-> IF dated THEN "date" ELSE "absent",
        daysUntilExpiry |-> IF dated THEN conn.days ELSE 0,
        subjectAltNames |-> IF cert /\ conn.san \in {"match", "mismatch"}
                            THEN conn.san ELSE "absent",
        error |-> IF conn.throws \/ (cert /\ conn.san = "malformed")
                  THEN "error" ELSE "absent" ]

\* Line 175: the payload of the secure-connect path.
tlsConnectPayload(conn) ==
  LET r == tlsInspect(conn)
  IN  finalizeResult("tls", r.score, r.warnings, tlsDetails(conn))

\* Lines 181-187: the payload of the 'error' path.
tlsErrorPayload(msg) ==
  finalizeResult("tls", 0,
    FilterBoolean(<<"Could not establish a TLS connection.", msg>>),
    [ error |-> msg ])

\* Lines 192-198: the payload of the 'timeout' path.
tlsTimeoutPayload ==
  finalizeResult("tls", 0, <<"TLS handshake timed out.">>, <<>>)

\* Lines 50-58: a URL that is not https.
tlsNotHttps ==
  finalizeResult("tls", 0,
    <<"Site does not use HTTPS; TLS certificate was not evaluated.">>,
    [ protocol |-> "http" ])

\* ------------------------------------------------------------------------
\* HTTP responses as the evaluators read them
\* ------------------------------------------------------------------------

\* The six rubric headers of a response, each by the class its check puts
\* the value in ("absent" also stands for the empty string), and
\*   malformed : some header holds a value that is neither a string, an
\*               array, a number, null nor undefined, so that
\*               normalizeValue's value.trim() raises.
HeaderMaps ==
  [ hsts : {"absent", "valid", "invalid"},
    csp : {"absent", "plain", "frame-ancestors"},
    xfo : {"absent", "deny", "other"},
    referrer : {"absent", "valid", "invalid"},
    permissions : {"absent", "present"},
    xcto : {"absent", "nosniff", "other"},
    malformed : BOOLEAN ]

\* One parsed Set-Cookie entry (set-cookie-parser's object).
\*   prefix  : "", "__Secure-" or "__Host-", what the name starts with
\*   path    : "/" or "other" (which includes no Path attribute)
\*   expires : "absent", "valid" or "invalid" (new Date gives Invalid Date)
Cookies ==
  [ secure : BOOLEAN, httpOnly : BOOLEAN,
    sameSite : {"absent", "strict", "lax", "none"},
    prefix : {"", "__Secure-", "__Host-"},
    path : {"/", "other"}, domain : BOOLEAN,
    expires : {"absent", "valid", "invalid"} ]

\* ------------------------------------------------------------------------
\* Header evaluator
\* ------------------------------------------------------------------------

\* Lines 23-25.
hasFrameAncestors(headers) == headers.csp = "frame-ancestors"

\* Lines 27-97: the six checks, each with present and valid() evaluated.
createHeaderChecks(headers) ==
  << [ label   |-> "HSTS (Strict-Transport-Security)", weight |-> 5,
       present |-> headers.hsts /= "absent",
       valid   |-> headers.hsts = "valid",
       warning |-> "Missing Strict-Transport-Security header (HSTS)." ],
     [ label   |-> "Content-Security-Policy", weight |-> 5,
       present |-> headers.csp /= "absent",
       valid   |-> headers.csp /= "absent",
       warning |-> "Missing Content-Security-Policy header." ],
     [ label   |-> "Clickjacking protection", weight |-> 4,
       present |-> headers.xfo /= "absent" \/ hasFrameAncestors(headers),
       valid   |-> IF headers.xfo /= "absent"
                   THEN headers.xfo = "deny"
                   ELSE hasFrameAncestors(headers),
       warning |-> "Missing X-Frame-Options header or frame-ancestors directive." ],
     [ label   |-> "Referrer-Policy", weight |-> 4,
       present |-> headers.referrer /= "absent",
       valid   |-> headers.referrer = "valid",
       warning |-> "Missing Referrer-Policy header." ],
     [ label   |-> "Permissions-Policy", weight |-> 3,
       present |-> headers.permissions /= "absent",
       valid   |-> headers.permissions = "present",
       warning |-> "Missing Permissions-Policy header." ],
     [ label   |-> "X-Content-Type-Options", weight |-> 4,
       present |-> headers.xcto /= "absent",
       valid   |-> headers.xcto = "nosniff",
       warning |-> "Missing X-Content-Type-Options header (nosniff)." ] >>

checkFailed(check) == ~check.present \/ ~check.valid

\* Lines 161-166: the headers of the response as details.presentHeaders
\* reports them.
presentHeaders(headers) ==
  [ hsts |-> headers.hsts, csp |-> headers.csp, xfo |-> headers.xfo,
    referrer |-> headers.referrer, permissions |-> headers.permissions,
    xcto |-> headers.xcto ]

\* scoreHeaders with every failed check costing 5 points.
scoreHeadersFlat(headers) ==
  LET checks == createHeaderChecks(headers)
      failed == SelectSeq(checks, checkFailed)
  IN  [ key |-> "headers", label |-> LabelOf("headers"),
        score |-> Max(0, MAX_SCORE - 5 * Len(failed)), maxScore |-> MAX_SCORE,
        passed |-> MAX_SCORE - 5 * Len(failed) >= PASSING_THRESHOLD,
        warnings |-> [ i \in 1..Len(failed) |-> failed[i].warning ],
        details |-> [ presentHeaders |-> presentHeaders(headers),
                      missing |-> [ i \in 1..Len(failed) |-> failed[i].label ] ] ]

\* Lines 156-186: the result for a response that was obtained.
scoreHeaders(headers) ==
  LET checks == createHeaderChecks(headers)
      failed == SelectSeq(checks, checkFailed)
      labelsOf(cs) == [ i \in 1..Len(cs) |-> cs[i].label ]
      warningsOf(cs) == [ i \in 1..Len(cs) |-> cs[i].warning ]
      weightsOf(cs) == [ i \in 1..Len(cs) |-> cs[i].weight ]
  IN  finalizeResult("headers", MAX_SCORE - SumSeq(weightsOf(failed)),
        warningsOf(failed),
        [ presentHeaders |-> presentHeaders(headers), missing |-> labelsOf(failed) ])

\* Lines 145-154: no response could be obtained.
headersUnavailable(msg) ==
  finalizeResult("headers", 0,
    FilterBoolean(<<"Unable to retrieve the site response headers.", msg>>), <<>>)

\* ------------------------------------------------------------------------
\* Cookie evaluator
\* ------------------------------------------------------------------------

\* Lines 28-59.
analyzeCookieIssues(cookie) ==
  (IF ~cookie.secure THEN <<"Missing Secure attribute.">> ELSE <<>>)
  \o (IF ~cookie.httpOnly THEN <<"Missing HttpOnly attribute.">> ELSE <<>>)
  \o (IF cookie.sameSite = "absent"
      THEN <<"Missing SameSite attribute.">>
      ELSE IF cookie.sameSite = "none" /\ ~cookie.secure
           THEN <<"SameSite=None cookies must also be Secure.">>
           ELSE <<>>)
  \o (IF cookie.prefix = "__Secure-" /\ ~cookie.secure
      THEN <<"__Secure- cookies must set the Secure flag.">> ELSE <<>>)
  \o (IF cookie.prefix = "__Host-"
      THEN (IF ~cookie.secure
            THEN <<"__Host- cookies must set the Secure flag.">> ELSE <<>>)
           \o (IF cookie.path /= "/"
               THEN <<"__Host- cookies must have Path=/">> ELSE <<>>)
           \o (IF cookie.domain
               THEN <<"__Host- cookies must not specify a Domain attribute.">>
               ELSE <<>>)
      ELSE <<>>)

\* Line 115: new Date(cookie.expires).toISOString() raises a RangeError on
\* an Invalid Date.
cookiesThrow(setCookie) ==
  \E i \in 1..Len(setCookie) : setCookie[i].expires = "invalid"

\* Lines 109-118: one entry of details.cookies.
cookieWithDetails(cookie) ==
  [ name |-> cookie.prefix, domain |-> cookie.domain, path |-> cookie.path,
    expires |-> cookie.expires, secure |-> cookie.secure,
    httpOnly |-> cookie.httpOnly, sameSite |-> cookie.sameSite,
    issues |-> analyzeCookieIssues(cookie) ]

\* scoreCookies with a penalty of 5 for each cookie that has an issue.
scoreCookiesPerCookie(setCookie) ==
  LET cookiesWithDetails == [ i \in 1..Len(setCookie) |-> cookieWithDetails(setCookie[i]) ]
      insecure == SelectSeq(cookiesWithDetails, LAMBDA c : Len(c.issues) > 0)
  IN  finalizeResult("cookies", MAX_SCORE - 5 * Len(insecure),
        [ i \in 1..Len(insecure) |-> "<name>: <issues>" ],
        IF Len(setCookie) = 0 THEN [ totalCookies |-> 0 ]
        ELSE [ totalCookies |-> Len(setCookie), insecureCookies |-> Len(insecure),
               cookies |-> cookiesWithDetails ])

\* Lines 91-137: the result for a response that was obtained and whose
\* cookies can all be mapped.
scoreCookies(setCookie) ==
  IF Len(setCookie) = 0
  THEN finalizeResult("cookies", MAX_SCORE, <<>>, [ totalCookies |-> 0 ])
  ELSE LET cookiesWithDetails ==
             [ i \in 1..Len(setCookie) |-> cookieWithDetails(setCookie[i]) ]
           penalty == SumSeq([ i \in 1..Len(setCookie) |->
                                 Len(cookiesWithDetails[i].issues) * 5 ])
           score == Max(0, MAX_SCORE - Min(MAX_SCORE, penalty))
           insecure == SelectSeq(cookiesWithDetails, LAMBDA c : Len(c.issues) > 0)
           \* one line per offending cookie: its name and its issues joined
           warnings == [ i \in 1..Len(insecure) |-> "<name>: <issues>" ]
       IN  finalizeResult("cookies", score, warnings,
             [ totalCookies |-> Len(setCookie), insecureCookies |-> Len(insecure),
               cookies |-> cookiesWithDetails ])

\* Lines 83-89: no response could be obtained.
cookiesUnavailable(msg) ==
  finalizeResult("cookies", 0,
    FilterBoolean(<<"Unable to retrieve response cookies.", msg>>), <<>>)

\* ------------------------------------------------------------------------
\* WHOIS evaluator
\* ------------------------------------------------------------------------

\* A WHOIS record as checkWhois reads it after normalizeRecord, pickValue
\* and parseDate.
\*   empty     : the record is missing or has no keys
\*   creation  : "absent" (no alias present), "unparsable" (parseDate gives
\*               undefined) or "date"
\*   ageDays   : floor((now - creation) / one day) when creation = "date"
\*   expiry, daysLeft : the same for the expiry date
\*   registrar : a registrar alias is present and non-empty
AgeDays == {29, 30, 179, 180}

DaysLeft == {0, 1, 30, 31}

WhoisRecords ==
  [ empty : BOOLEAN, creation : {"absent", "unparsable", "date"}, ageDays : AgeDays,
    expiry : {"absent", "unparsable", "date"}, daysLeft : DaysLeft,
    registrar : BOOLEAN ]

\* whoisAgeStep with both age penalties applied to a domain younger than 30
\* days.
whoisAgeStepCumulative(record, acc) ==
  IF record.creation = "date"
  THEN IF record.ageDays < 30
       THEN [ score |-> acc.score - 12 - 6,
              warnings |-> Append(acc.warnings, "Domain was registered within the last 30 days.") ]
       ELSE IF record.ageDays < 180
            THEN [ score |-> acc.score - 6,
                   warnings |-> Append(acc.warnings,
                                  "Domain is relatively new (less than six months old).") ]
            ELSE acc
  ELSE [ score |-> acc.score - 6,
         warnings |-> Append(acc.warnings, "Unable to determine domain creation date.") ]

\* Lines 153-167.
whoisAgeStep(record, acc) ==
  IF record.creation = "date"
  THEN IF record.ageDays < 30
       THEN [ score |-> acc.score - 12,
              warnings |-> Append(acc.warnings, "Domain was registered within the last 30 days.") ]
       ELSE IF record.ageDays < 180
            THEN [ score |-> acc.score - 6,
                   warnings |-> Append(acc.warnings,
                                  "Domain is relatively new (less than six months old).") ]
            ELSE acc
  ELSE [ score |-> acc.score - 6,
         warnings |-> Append(acc.warnings, "Unable to determine domain creation date.") ]

\* Lines 169-183.
whoisExpiryStep(record, acc) ==
  IF record.expiry = "date"
  THEN IF record.daysLeft <= 0
       THEN [ score |-> acc.score - 10,
              warnings |-> Append(acc.warnings, "Domain appears to be expired.") ]
       ELSE IF record.daysLeft <= 30
            THEN [ score |-> acc.score - 6,
                   warnings |-> Append(acc.warnings, "Domain expires within the next 30 days.") ]
            ELSE acc
  ELSE [ score |-> acc.score - 5,
         warnings |-> Append(acc.warnings, "Unable to determine domain expiry date.") ]

\* Lines 185-188.
whoisRegistrarStep(record, acc) ==
  IF record.registrar
  THEN acc
  ELSE [ score |-> acc.score - 3,
         warnings |-> Append(acc.warnings, "Registrar information is missing.") ]

\* Lines 147-172: the details of a scored record; a field the code leaves
\* out or undefined is "absent" here.
whoisDetails(record) ==
  [ domain |-> "domain",
    registrar |-> IF record.registrar THEN "registrar" ELSE "absent",
    creationDate |-> IF record.creation = "date" THEN "date" ELSE "absent",
    domainAgeDays |-> IF record.creation = "date" THEN record.ageDays ELSE 0,
    expiryDate |-> IF record.expiry = "date" THEN "date" ELSE "absent",
    daysUntilExpiry |-> IF record.expiry = "date" THEN record.daysLeft ELSE 0 ]

\* Lines 99-194: the result once the lookup has returned.
scoreWhois(record) ==
  IF record.empty
  THEN finalizeResult("whois", 0, <<"WHOIS lookup did not return any data.">>,
         [ hostname |-> "host" ])
  ELSE LET r == whoisRegistrarStep(record,
                  whoisExpiryStep(record,
                    whoisAgeStep(record, [ score |-> MAX_SCORE, warnings |-> <<>> ])))
       IN  finalizeResult("whois", r.score, r.warnings, whoisDetails(record))

\* Lines 91-97: the lookup raised (a network fault, or its timeout).
whoisLookupFailed(msg) ==
  finalizeResult("whois", 0, FilterBoolean(<<"WHOIS lookup failed.", msg>>),
    [ hostname |-> "host" ])

\* Lines 80-86: the hostname has no registrable domain.
whoisNoDomain ==
  finalizeResult("whois", 0,
    <<"Unable to determine a registrable domain for WHOIS lookup.">>,
    [ hostname |-> "host" ])

\* ------------------------------------------------------------------------
\* Requests, the HTTP client and the shared fetch
\* ------------------------------------------------------------------------

\* The url field of a request body; "" is a missing (or empty) field.
Urls == {"", "not a url", "ftp://host.example/", "http://localhost/",
         "https://host.example/"}

\* new URL(url): whether it parses, its protocol, and whether psl.parse
\* finds a registrable domain in its hostname.
URL(url) ==
  CASE url = "ftp://host.example/" ->
         [ ok |-> TRUE, protocol |-> "ftp:", registrable |-> TRUE ]
    [] url = "http://localhost/" ->
         [ ok |-> TRUE, protocol |-> "http:", registrable |-> FALSE ]
    [] url = "https://host.example/" ->
         [ ok |-> TRUE, protocol |-> "https:", registrable |-> TRUE ]
    [] OTHER ->
         [ ok |-> FALSE, protocol |-> "", registrable |-> FALSE ]

\* Header maps and cookies used for the responses of the request pipeline.
SecureHeaders ==
  [ hsts |-> "valid", csp |-> "frame-ancestors", xfo |-> "deny", referrer |-> "valid",
    permissions |-> "present", xcto |-> "nosniff", malformed |-> FALSE ]

BareHeaders ==
  [ hsts |-> "absent", csp |-> "absent", xfo |-> "absent", referrer |-> "absent",
    permissions |-> "absent", xcto |-> "absent", malformed |-> FALSE ]

SessionCookie ==
  [ secure |-> TRUE, httpOnly |-> TRUE, sameSite |-> "strict", prefix |-> "__Host-",
    path |-> "/", domain |-> FALSE, expires |-> "valid" ]

WeakCookie ==
  [ secure |-> FALSE, httpOnly |-> FALSE, sameSite |-> "absent", prefix |-> "",
    path |-> "other", domain |-> FALSE, expires |-> "absent" ]

PipelineHeaders ==
  { SecureHeaders, BareHeaders, [ SecureHeaders EXCEPT !.malformed = TRUE ] }

PipelineCookieLists ==
  { <<>>, <<WeakCookie>>, << [ SessionCookie EXCEPT !.expires = "invalid" ] >> }

NullResponse == [ present |-> FALSE, headers |-> BareHeaders, setCookie |-> <<>> ]

\* The responses a GET of the target gives in the request pipeline.
Responses ==
  [ present : {TRUE}, headers : PipelineHeaders, setCookie : PipelineCookieLists ]

NoError == [ present |-> FALSE, message |-> "" ]

\* What axios.get does (validateStatus accepts every status): it resolves
\* with a response, or raises an error that may carry a response.
GetOutcomes ==
  [ kind : {"resolve"}, response : Responses, message : {""} ]
  \cup [ kind : {"raise"}, response : Responses, message : {"maxRedirects exceeded"} ]
  \cup [ kind : {"raise"}, response : {NullResponse}, message : ErrMessages ]

fetchSiteResponseDropping(outcome) ==
  IF outcome.kind = "resolve"
  THEN [ thrown |-> FALSE, response |-> outcome.response, error |-> NoError ]
  ELSE [ thrown |-> FALSE, response |-> NullResponse,
         error |-> [ present |-> TRUE, message |-> outcome.message ] ]

\* Lines 24-42.
fetchSiteResponse(outcome) ==
  IF outcome.kind = "resolve"
  THEN [ thrown |-> FALSE, response |-> outcome.response, error |-> NoError ]
  ELSE IF outcome.response.present
       THEN [ thrown |-> FALSE, response |-> outcome.response,
              error |-> [ present |-> TRUE, message |-> outcome.message ] ]
       ELSE [ thrown |-> FALSE, response |-> NullResponse,
              error |-> [ present |-> TRUE, message |-> outcome.message ] ]

\* ------------------------------------------------------------------------
\* Promises and the aggregator
\* ------------------------------------------------------------------------

NoValue == <<>>

Idle == [ status |-> "idle", value |-> NoValue, reason |-> "" ]

Pending == [ status |-> "pending", value |-> NoValue, reason |-> "" ]

Fulfilled(v) == [ status |-> "fulfilled", value |-> v, reason |-> "" ]

Rejected(msg) == [ status |-> "rejected", value |-> NoValue, reason |-> msg ]

\* Settling a promise: only the first resolve of a pending promise counts.
resolve(promise, payload) ==
  IF promise.status = "pending" THEN Fulfilled(payload) ELSE promise

anyRejectedOrAllFulfilled(results) ==
  \/ \E k \in Evaluators : results[k].status = "rejected"
  \/ \A k \in Evaluators : results[k].status = "fulfilled"

\* Line 124: Promise.allSettled resumes the handler once every task has
\* fulfilled or rejected.
allSettled(results) ==
  \A k \in Evaluators : results[k].status \in {"fulfilled", "rejected"}

\* fallbackCategory without its warnings.
fallbackCategorySilent(index, reason) ==
  [ key      |-> TaskKeys[index],
    label    |-> TaskLabels[index],
    score    |-> 0,
    maxScore |-> MAX_SCORE,
    passed   |-> FALSE,
    warnings |-> <<>>,
    details  |-> [ error |-> reason ] ]

\* Lines 130-139: the substitute for a rejected task.
fallbackCategory(index, reason) ==
  [ key      |-> TaskKeys[index],
    label    |-> TaskLabels[index],
    score    |-> 0,
    maxScore |-> MAX_SCORE,
    passed   |-> FALSE,
    warnings |-> FilterBoolean(<<"Check failed to complete.", reason>>),
    details  |-> [ error |-> reason ] ]

fulfilledOnly(results) ==
  LET kept == SelectSeq(TaskKeys, LAMBDA k : results[k].status = "fulfilled")
  IN  [ i \in 1..Len(kept) |-> results[kept[i]].value ]

\* Lines 126-140: results.map over the tasks, in the order of the tasks.
buildCategories(results) ==
  [ i \in 1..Len(TaskKeys) |->
      IF results[TaskKeys[i]].status = "fulfilled"
      THEN results[TaskKeys[i]].value
      ELSE fallbackCategory(i, results[TaskKeys[i]].reason) ]

\* Math.round(x / y * 100) for integers x >= 0, y > 0: halves round up.
RoundPercent(x, y) == (200 * x + y) \div (2 * y)

ratingOfInclusive(normalizedScore) ==
  IF normalizedScore <= 50 THEN "Dangerous"
  ELSE IF normalizedScore <= 60 THEN "Warning"
  ELSE "Safe"

\* Lines 53-58.
ratingOf(normalizedScore) ==
  IF normalizedScore < 50 THEN "Dangerous"
  ELSE IF normalizedScore < 60 THEN "Warning"
  ELSE "Safe"

summarizeOverallSkippingFirst(categories) ==
  LET totalScore == SumSeq([ i \in 1..Len(categories) - 1 |-> categories[i + 1].score ])
      totalMaxScore == SumSeq([ i \in 1..Len(categories) |-> categories[i].maxScore ])
      normalizedScore == IF totalMaxScore > 0 THEN RoundPercent(totalScore, totalMaxScore)
                         ELSE 0
  IN  [ total |-> normalizedScore, max |-> 100, rating |-> ratingOf(normalizedScore) ]

\* Lines 44-65.
summarizeOverall(categories) ==
  LET totalScore == SumSeq([ i \in 1..Len(categories) |-> categories[i].score ])
      totalMaxScore == SumSeq([ i \in 1..Len(categories) |-> categories[i].maxScore ])
      normalizedScore == IF totalMaxScore > 0 THEN RoundPercent(totalScore, totalMaxScore)
                         ELSE 0
  IN  [ total |-> normalizedScore, max |-> 100, rating |-> ratingOf(normalizedScore) ]

\* ------------------------------------------------------------------------
\* The evaluators as asynchronous tasks
\* ------------------------------------------------------------------------

\* Handshake reports and WHOIS records used in the request pipeline.
GoodConn ==
  [ throws |-> FALSE, protocol |-> "TLS", empty |-> FALSE, issuer |-> TRUE,
    validTo |-> "date", days |-> 91, san |-> "match" ]

PipelineConns ==
  { GoodConn,
    [ GoodConn EXCEPT !.days = 30 ],
    [ GoodConn EXCEPT !.protocol = "SSL", !.issuer = FALSE, !.days = -1, !.san = "mismatch" ],
    [ GoodConn EXCEPT !.throws = TRUE ] }

GoodRecord ==
  [ empty |-> FALSE, creation |-> "date", ageDays |-> 180, expiry |-> "date",
    daysLeft |-> 31, registrar |-> TRUE ]

PipelineRecords ==
  { GoodRecord,
    [ GoodRecord EXCEPT !.creation = "unparsable", !.daysLeft = 0 ],
    [ GoodRecord EXCEPT !.empty = TRUE ] }

\* checkHeaders lines 156-186 on an obtained response; normalizeValue
\* (line 19) raises on a malformed header value, which rejects the task.
evalHeaders(response) ==
  IF response.headers.malformed
  THEN Rejected("value.trim is not a function")
  ELSE Fulfilled(scoreHeaders(response.headers))

\* checkHeaders lines 128-154 once its own GET has ended with `outcome`.
headersAfterGet(outcome) ==
  IF outcome.response.present
  THEN evalHeaders(outcome.response)
  ELSE Fulfilled(headersUnavailable(outcome.message))

\* checkCookies lines 91-137 on an obtained response.
evalCookies(response) ==
  IF cookiesThrow(response.setCookie)
  THEN Rejected("Invalid time value")
  ELSE Fulfilled(scoreCookies(response.setCookie))

\* checkCookies lines 66-89 once its own GET has ended with `outcome`.
cookiesAfterGet(outcome) ==
  IF outcome.response.present
  THEN evalCookies(outcome.response)
  ELSE Fulfilled(cookiesUnavailable(outcome.message))

\* The guard of checkTLS: the handshake paths settle the promise through it.
\* t is the closure state of one checkTLS call.
resolveSafeUnguarded(t, promise, payload) ==
  [ t |-> [ t EXCEPT !.settled = TRUE, !.resolveCalls = @ + 1 ],
    promise |-> resolve(promise, payload) ]

\* Lines 63-68.
resolveSafe(t, promise, payload) ==
  IF t.settled
  THEN [ t |-> t, promise |-> promise ]
  ELSE [ t |-> [ t EXCEPT !.settled = TRUE, !.resolveCalls = @ + 1 ],
         promise |-> resolve(promise, payload) ]

whoisAfterTimeoutNeverEnds(promise) == promise

\* Lines 88-97: the lookup's timeout ends it with an error, which the
\* catch turns into a result.
whoisAfterTimeout(promise) ==
  resolve(promise, whoisLookupFailed("lookup: timeout"))

\* ------------------------------------------------------------------------
\* State
\* ------------------------------------------------------------------------

VARIABLES
  pc,             \* where the handler of the request is
  url,            \* the url of the request body
  gets,           \* HTTP GETs issued so far
  lookups,        \* WHOIS queries issued so far
  fetched,        \* how the GET of the shared fetch ended
  sharedContext,  \* the response and error of the shared fetch
  ev,             \* the promise of each of the four tasks
  tls,            \* the socket and the closure of checkTLS
  lastSettled,    \* the task that settled most recently
  res             \* the response sent to the client

vars == <<pc, url, gets, lookups, fetched, sharedContext, ev, tls, lastSettled, res>>

NoSocket ==
  [ socket |-> "none", settled |-> FALSE, resolveCalls |-> 0, fired |-> {},
    first |-> NoValue ]

NoResponseYet ==
  [ status |-> 0, error |-> "", categories |-> <<>>,
    score |-> [ total |-> 0, max |-> 100, rating |-> "" ], httpError |-> "" ]

NoOutcome == [ kind |-> "none", response |-> NullResponse, message |-> "" ]

Init ==
  /\ pc = "idle"
  /\ url = ""
  /\ gets = 0
  /\ lookups = 0
  /\ fetched = NoOutcome
  /\ sharedContext = [ response |-> NullResponse, fetchError |-> NoError ]
  /\ ev = [ k \in Evaluators |-> Idle ]
  /\ tls = NoSocket
  /\ lastSettled = ""
  /\ res = NoResponseYet

validationErrorAnyScheme(u) ==
  IF u = "" THEN "Please provide a url in the request body."
  ELSE IF ~URL(u).ok THEN "The provided URL is not valid."
  ELSE ""

BadRequest(message) == [ NoResponseYet EXCEPT !.status = 400, !.error = message ]

\* Lines 72-88: the message of the 400 answer, "" when the url is accepted.
validationError(u) ==
  IF u = "" THEN "Please provide a url in the request body."
  ELSE IF ~URL(u).ok THEN "The provided URL is not valid."
  ELSE IF URL(u).protocol \notin {"http:", "https:"}
       THEN "Only HTTP and HTTPS URLs can be checked by this service."
       ELSE ""

Settled(promise) == promise.status \in {"fulfilled", "rejected"}

\* The tasks among `keys` (in task order) that are settled in `after` and
\* were not in `before`.
NewlySettled(before, after) ==
  SelectSeq(TaskKeys, LAMBDA k : Settled(after[k]) /\ ~Settled(before[k]))

\* The task that settled most recently once `before` has become `after`.
LastSettledAfter(before, after) ==
  LET new == NewlySettled(before, after)
  IN  IF new = <<>> THEN lastSettled ELSE new[Len(new)]

\* ------------------------------------------------------------------------
\* The request handler
\* ------------------------------------------------------------------------

\* Lines 71-91: validation; an accepted url starts the shared fetch.
Receive(u) ==
  /\ pc = "idle"
  /\ url' = u
  /\ IF validationError(u) /= ""
     THEN /\ res' = BadRequest(validationError(u))
          /\ pc' = "responded"
          /\ gets' = gets
     ELSE /\ res' = res
          /\ pc' = "fetching"
          /\ gets' = gets + 1
  /\ UNCHANGED <<lookups, fetched, sharedContext, ev, tls, lastSettled>>

\* checkTLS lines 37-70, up to the promise it returns; tls.connect may raise.
startTLS(u, connectRaises) ==
  IF URL(u).protocol /= "https:" THEN Fulfilled(tlsNotHttps)
  ELSE IF connectRaises THEN Rejected("tls.connect failed")
  ELSE Pending

\* startHeaders issuing its own GET whatever the context holds.
startHeadersAlwaysFetching(context) == Pending

\* checkHeaders lines 123-128, up to its first suspension.
startHeaders(context) ==
  IF context.response.present THEN evalHeaders(context.response) ELSE Pending

\* checkCookies lines 61-66, up to its first suspension.
startCookies(context) ==
  IF context.response.present THEN evalCookies(context.response) ELSE Pending

\* checkWhois lines 67-90, up to its first suspension; psl.parse may raise.
startWhois(u, pslRaises) ==
  IF pslRaises THEN Rejected("psl.parse failed")
  ELSE IF ~URL(u).registrable THEN Fulfilled(whoisNoDomain)
  ELSE Pending

\* Lines 91-124: the shared fetch ends, and the four tasks are started in
\* the order of the tasks array, each running up to its first suspension.
FetchDone(outcome, connectRaises, pslRaises) ==
  /\ pc = "fetching"
  /\ fetched' = outcome
  /\ LET fr == fetchSiteResponse(outcome)
         context == [ response |-> fr.response, fetchError |-> fr.error ]
         started == [ k \in Evaluators |->
                        CASE k = "tls"     -> startTLS(url, connectRaises)
                          [] k = "headers" -> startHeaders(context)
                          [] k = "cookies" -> startCookies(context)
                          [] k = "whois"   -> startWhois(url, pslRaises) ]
     IN  IF fr.thrown
         THEN /\ pc' = "crashed"
              /\ UNCHANGED <<gets, lookups, sharedContext, ev, tls, lastSettled>>
         ELSE /\ pc' = "evaluating"
              /\ sharedContext' = context
              /\ ev' = started
              /\ tls' = IF started["tls"].status = "pending"
                        THEN [ NoSocket EXCEPT !.socket = "open" ]
                        ELSE NoSocket
              /\ gets' = gets
                         + (IF started["headers"].status = "pending" THEN 1 ELSE 0)
                         + (IF started["cookies"].status = "pending" THEN 1 ELSE 0)
              /\ lookups' = lookups
                            + (IF started["whois"].status = "pending" THEN 1 ELSE 0)
              /\ lastSettled' = LastSettledAfter(ev, started)
  /\ UNCHANGED <<url, res>>

\* One completion path of the handshake fires: it may act on the socket and
\* hands its payload to resolveSafe.
TlsPath(name, socketAfter, payload) ==
  /\ tls.socket /= "none"
  /\ name \notin tls.fired
  /\ LET r == resolveSafe(tls, ev["tls"], payload)
     IN  /\ tls' = [ r.t EXCEPT !.socket = socketAfter,
                                !.fired = @ \cup {name},
                                !.first = IF tls.fired = {} THEN payload ELSE @ ]
         /\ ev' = [ ev EXCEPT !["tls"] = r.promise ]
         /\ lastSettled' = LastSettledAfter(ev, ev')
  /\ UNCHANGED <<pc, url, gets, lookups, fetched, sharedContext, res>>

\* Lines 78-177: the secure-connect callback; socket.end() in its finally.
TlsSecureConnect(conn) ==
  TlsPath("connect", IF tls.socket = "open" THEN "ended" ELSE tls.socket,
          tlsConnectPayload(conn))

\* Lines 180-188: the 'error' handler; it does not touch the socket.
TlsError(msg) ==
  TlsPath("error", tls.socket, tlsErrorPayload(msg))

\* Lines 190-199: the 'timeout' handler; socket.destroy() first.
TlsTimeout ==
  TlsPath("timeout", "destroyed", tlsTimeoutPayload)

\* checkHeaders lines 128-186: its own GET ends.
HeadersGetDone(outcome) ==
  /\ ev["headers"].status = "pending"
  /\ ev' = [ ev EXCEPT !["headers"] = headersAfterGet(outcome) ]
  /\ lastSettled' = "headers"
  /\ UNCHANGED <<pc, url, gets, lookups, fetched, sharedContext, tls, res>>

\* checkCookies lines 66-137: its own GET ends.
CookiesGetDone(outcome) ==
  /\ ev["cookies"].status = "pending"
  /\ ev' = [ ev EXCEPT !["cookies"] = cookiesAfterGet(outcome) ]
  /\ lastSettled' = "cookies"
  /\ UNCHANGED <<pc, url, gets, lookups, fetched, sharedContext, tls, res>>

\* checkWhois lines 90-194: the lookup returns a record.
WhoisReply(record) ==
  /\ ev["whois"].status = "pending"
  /\ ev' = [ ev EXCEPT !["whois"] = Fulfilled(scoreWhois(record)) ]
  /\ lastSettled' = "whois"
  /\ UNCHANGED <<pc, url, gets, lookups, fetched, sharedContext, tls, res>>

\* checkWhois lines 90-97: the lookup raises a network fault.
WhoisError(msg) ==
  /\ ev["whois"].status = "pending"
  /\ ev' = [ ev EXCEPT !["whois"] = Fulfilled(whoisLookupFailed(msg)) ]
  /\ lastSettled' = "whois"
  /\ UNCHANGED <<pc, url, gets, lookups, fetched, sharedContext, tls, res>>

\* checkWhois lines 90-97: the lookup has not answered within its timeout.
WhoisTimeout ==
  /\ ev["whois"].status = "pending"
  /\ ev' = [ ev EXCEPT !["whois"] = whoisAfterTimeout(ev["whois"]) ]
  /\ lastSettled' = LastSettledAfter(ev, ev')
  /\ UNCHANGED <<pc, url, gets, lookups, fetched, sharedContext, tls, res>>

\* Lines 124-157: the handler resumes and sends the response.
Respond ==
  /\ pc = "evaluating"
  /\ allSettled(ev)
  /\ LET categories == buildCategories(ev)
     IN  res' = [ status     |-> 200,
                  error      |-> "",
                  categories |-> categories,
                  score      |-> summarizeOverall(categories),
                  httpError  |-> IF sharedContext.fetchError.present
                                    /\ ~sharedContext.response.present
                                 THEN sharedContext.fetchError.message
                                 ELSE "" ]
  /\ pc' = "responded"
  /\ UNCHANGED <<url, gets, lookups, fetched, sharedContext, ev, tls, lastSettled>>

Next ==
  \/ \E u \in Urls : Receive(u)
  \/ \E o \in GetOutcomes, c \in BOOLEAN, p \in BOOLEAN : FetchDone(o, c, p)
  \/ \E conn \in PipelineConns : TlsSecureConnect(conn)
  \/ \E msg \in ErrMessages : TlsError(msg)
  \/ TlsTimeout
  \/ \E o \in GetOutcomes : HeadersGetDone(o)
  \/ \E o \in GetOutcomes : CookiesGetDone(o)
  \/ \E record \in PipelineRecords : WhoisReply(record)
  \/ \E msg \in ErrMessages : WhoisError(msg)
  \/ WhoisTimeout
  \/ Respond

Spec == Init /\ [][Next]_vars

\* The pipeline on one site (a response with every rubric header and no
\* cookie, or no response at all), with the scheduling the runtime
\* guarantees: a timer that is armed fires, an HTTP GET ends (it carries a
\* timeout), and a handler whose awaited promise has settled is resumed.
LiveOutcomes ==
  { [ kind |-> "resolve", message |-> "",
      response |-> [ present |-> TRUE, headers |-> SecureHeaders, setCookie |-> <<>> ] ],
    [ kind |-> "raise", message |-> "ECONNRESET", response |-> NullResponse ] }

LiveNext ==
  \/ \E u \in Urls : Receive(u)
  \/ \E o \in LiveOutcomes, c \in BOOLEAN, p \in BOOLEAN : FetchDone(o, c, p)
  \/ TlsSecureConnect(GoodConn)
  \/ TlsError("ECONNRESET")
  \/ TlsTimeout
  \/ \E o \in LiveOutcomes : HeadersGetDone(o)
  \/ \E o \in LiveOutcomes : CookiesGetDone(o)
  \/ WhoisReply(GoodRecord)
  \/ WhoisError("ECONNRESET")
  \/ WhoisTimeout
  \/ Respond

LiveSpec ==
  /\ Init
  /\ [][LiveNext]_vars
  /\ WF_vars(TlsTimeout)
  /\ WF_vars(WhoisTimeout)
  /\ WF_vars(\E o \in LiveOutcomes : HeadersGetDone(o))
  /\ WF_vars(\E o \in LiveOutcomes : CookiesGetDone(o))
  /\ WF_vars(Respond)

\* ------------------------------------------------------------------------
\* One evaluator at a time, on every input of its classes
\* ------------------------------------------------------------------------

RECURSIVE SeqsUpTo(_, _)
SeqsUpTo(S, n) ==
  IF n = 0 THEN { <<>> }
  ELSE LET shorter == SeqsUpTo(S, n - 1)
       IN  shorter \cup { Append(q, x) : q \in shorter, x \in S }

\* Cookies with 0, 1, 2, 3 and 6 issues, and one whose Expires is invalid.
SampleCookies ==
  { SessionCookie,
    [ SessionCookie EXCEPT !.httpOnly = FALSE ],
    [ SessionCookie EXCEPT !.secure = FALSE, !.prefix = "__Secure-" ],
    WeakCookie,
    [ WeakCookie EXCEPT !.sameSite = "none", !.prefix = "__Host-", !.domain = TRUE ],
    [ SessionCookie EXCEPT !.expires = "invalid" ] }

\* Every header map without cookies, every single cookie, and the lists of
\* up to MaxCookies sample cookies.
EvalResponses ==
  [ present : {TRUE}, headers : HeaderMaps, setCookie : { <<>> } ]
  \cup [ present : {TRUE}, headers : {BareHeaders},
         setCookie : { <<c>> : c \in Cookies } \cup SeqsUpTo(SampleCookies, MaxCookies) ]

EvalOutcomes ==
  [ kind : {"resolve"}, response : EvalResponses, message : {""} ]
  \cup [ kind : {"raise"}, response : {NullResponse}, message : ErrMessages ]

\* The response of the shared fetch that makes both evaluators reading it
\* reject at once.
UnreadableResponse ==
  [ present |-> TRUE, headers |-> [ SecureHeaders EXCEPT !.malformed = TRUE ],
    setCookie |-> << [ SessionCookie EXCEPT !.expires = "invalid" ] >> ]

\* The state of a request for https://host.example/ in which the task
\* `study` alone is outstanding and the three others have rejected: after
\* a shared fetch that gave UnreadableResponse (tls, whois), or after one
\* that gave nothing and the own GET of the other reader gave it (headers,
\* cookies).
Outstanding(study) ==
  LET shared == study \in {"tls", "whois"}
  IN  /\ pc = "evaluating"
      /\ url = "https://host.example/"
      /\ fetched = IF shared
                   THEN [ kind |-> "resolve", response |-> UnreadableResponse, message |-> "" ]
                   ELSE [ kind |-> "raise", response |-> NullResponse, message |-> "" ]
      /\ sharedContext = IF shared
                         THEN [ response |-> UnreadableResponse, fetchError |-> NoError ]
                         ELSE [ response |-> NullResponse,
                                fetchError |-> [ present |-> TRUE, message |-> "" ] ]
      /\ gets = IF shared THEN 1 ELSE 3
      /\ lookups = IF study = "whois" THEN 1 ELSE 0
      /\ ev = [ k \in Evaluators |->
                  IF k = study THEN Pending
                  ELSE CASE k = "tls"     -> Rejected("tls.connect failed")
                         [] k = "headers" -> Rejected("value.trim is not a function")
                         [] k = "cookies" -> Rejected("Invalid time value")
                         [] k = "whois"   -> Rejected("psl.parse failed") ]
      /\ tls = IF study = "tls" THEN [ NoSocket EXCEPT !.socket = "open" ] ELSE NoSocket
      /\ lastSettled = CASE study = "headers" -> "cookies"
                         [] study = "cookies" -> "headers"
                         [] study = "tls"     -> "whois"
                         [] study = "whois"   -> "cookies"
      /\ res = NoResponseYet

EvalInit == \E study \in Evaluators : Outstanding(study)

EvalNext ==
  \/ \E conn \in Conns : TlsSecureConnect(conn)
  \/ \E msg \in ErrMessages : TlsError(msg)
  \/ TlsTimeout
  \/ \E o \in EvalOutcomes : HeadersGetDone(o)
  \/ \E o \in EvalOutcomes : CookiesGetDone(o)
  \/ \E record \in WhoisRecords : WhoisReply(record)
  \/ \E msg \in ErrMessages : WhoisError(msg)
  \/ WhoisTimeout
  \/ Respond

EvalSpec == EvalInit /\ [][EvalNext]_vars

\* ------------------------------------------------------------------------
\* The aggregation, on every combination of category scores
\* ------------------------------------------------------------------------

\* How checkTLS can end for an https URL when one path fires, with the
\* closure it leaves behind.
TlsEndings ==
  { [ path |-> "connect", socket |-> "ended", payload |-> tlsConnectPayload(c) ] :
      c \in Conns }
  \cup { [ path |-> "error", socket |-> "open", payload |-> tlsErrorPayload(m) ] :
           m \in ErrMessages }
  \cup { [ path |-> "timeout", socket |-> "destroyed", payload |-> tlsTimeoutPayload ] }

HeadersResults ==
  { scoreHeaders(h) : h \in { x \in HeaderMaps : ~x.malformed } }
  \cup { headersUnavailable(m) : m \in ErrMessages }

CookiesResults ==
  { scoreCookies(l) : l \in { x \in SeqsUpTo(SampleCookies, MaxCookies) : ~cookiesThrow(x) } }
  \cup { cookiesUnavailable(m) : m \in ErrMessages }

WhoisResults ==
  { scoreWhois(r) : r \in WhoisRecords }
  \cup { whoisLookupFailed(m) : m \in ErrMessages \cup {"lookup: timeout"} }

\* One result of each score among `results`.
OnePerScore(results) ==
  { CHOOSE r \in results : r.score = n : n \in { r.score : r \in results } }

OneEndingPerScore ==
  { CHOOSE e \in TlsEndings : e.payload.score = n : n \in { e.payload.score : e \in TlsEndings } }

\* The state of a request for https://host.example/ whose shared fetch gave
\* nothing, once the four tasks have settled: the handshake ended as
\* `ending` (or tls.connect raised), the own GETs and the lookup gave the
\* results h, c and w (or the task rejected).
AllSettledWith(tlsRaised, ending, h, c, w) ==
  /\ pc = "evaluating"
  /\ url = "https://host.example/"
  /\ fetched = [ kind |-> "raise", response |-> NullResponse, message |-> "" ]
  /\ sharedContext = [ response |-> NullResponse,
                       fetchError |-> [ present |-> TRUE, message |-> "" ] ]
  /\ gets = 3
  /\ lookups = IF w.status = "rejected" THEN 0 ELSE 1
  /\ ev = [ k \in Evaluators |->
              CASE k = "tls"     -> IF tlsRaised THEN Rejected("tls.connect failed")
                                    ELSE Fulfilled(ending.payload)
                [] k = "headers" -> h
                [] k = "cookies" -> c
                [] k = "whois"   -> w ]
  /\ tls = IF tlsRaised THEN NoSocket
           ELSE [ socket |-> ending.socket, settled |-> TRUE, resolveCalls |-> 1,
                  fired |-> {ending.path}, first |-> ending.payload ]
  /\ lastSettled = "cookies"
  /\ res = NoResponseYet

ScoreInit ==
  \E tlsRaised \in BOOLEAN, ending \in OneEndingPerScore,
     h \in { Fulfilled(r) : r \in OnePerScore(HeadersResults) }
           \cup { Rejected("value.trim is not a function") },
     c \in { Fulfilled(r) : r \in OnePerScore(CookiesResults) }
           \cup { Rejected("Invalid time value") },
     w \in { Fulfilled(r) : r \in OnePerScore(WhoisResults) }
           \cup { Rejected("psl.parse failed") } :
    AllSettledWith(tlsRaised, ending, h, c, w)

ScoreSpec == ScoreInit /\ [][Respond]_vars

\* ------------------------------------------------------------------------
\* Properties
\* ------------------------------------------------------------------------

Sent == res.status = 200

\* C1: every response to an accepted request lists exactly four categories,
\* keyed tls, headers, cookies, whois in this order, whichever tasks
\* fulfilled or rejected and in whatever order they settled; the position
\* of a rejected task holds a substitute with score 0, passed false and
\* 'Check failed to complete.' as its first warning.
C1_FourCategoriesInTaskOrder ==
  Sent =>
    /\ Len(res.categories) = 4
    /\ \A i \in 1..4 : res.categories[i].key = TaskKeys[i]
    /\ \A i \in 1..4 :
         ev[TaskKeys[i]].status = "rejected" =>
           /\ res.categories[i].score = 0
           /\ res.categories[i].passed = FALSE
           /\ Len(res.categories[i].warnings) >= 1
           /\ res.categories[i].warnings[1] = "Check failed to complete."

\* A response in which the first task of the array settled last, two tasks
\* rejected and two fulfilled.
C1_Witness ==
  /\ Sent
  /\ lastSettled = "tls"
  /\ ev["tls"].status = "fulfilled"
  /\ ev["headers"].status = "rejected"
  /\ ev["cookies"].status = "fulfilled"
  /\ ev["whois"].status = "rejected"
  /\ res.categories[1].key = "tls"
  /\ res.categories[4].warnings[1] = "Check failed to complete."

\* C2: a response is only sent once all four tasks have settled, and the
\* result of every fulfilled task is in it unchanged, whatever the other
\* tasks did.
C2_ResponseAfterAllSettled ==
  Sent =>
    \A i \in 1..4 :
      /\ Settled(ev[TaskKeys[i]])
      /\ Len(res.categories) >= i
      /\ ev[TaskKeys[i]].status = "fulfilled" =>
           res.categories[i] = ev[TaskKeys[i]].value

\* A response sent after the TLS task rejected at once and the WHOIS task
\* settled last: the rejection neither hastened the response nor lost the
\* WHOIS result.
C2_Witness ==
  /\ Sent
  /\ ev["tls"].status = "rejected"
  /\ lastSettled = "whois"
  /\ ev["whois"].status = "fulfilled"
  /\ res.categories[4] = ev["whois"].value
  /\ res.categories[4].score = MAX_SCORE

\* The result checkWhois gives when its lookup timed out.
WhoisTimedOut == ev["whois"] = Fulfilled(whoisLookupFailed("lookup: timeout"))

\* C3: a WHOIS lookup that does not answer cannot hold the response back
\* for ever: from any state where the lookup is outstanding a response is
\* eventually sent, and when the lookup timed out while the three other
\* tasks fulfilled, the response carries their three results and a whois
\* category of score 0.
C3_WhoisTimeoutDoesNotBlock ==
  /\ (ev["whois"].status = "pending") ~> Sent
  /\ [](Sent /\ WhoisTimedOut
          /\ (\A k \in {"tls", "headers", "cookies"} : ev[k].status = "fulfilled")
        => /\ \A i \in 1..3 : res.categories[i] = ev[TaskKeys[i]].value
           /\ res.categories[4].key = "whois"
           /\ res.categories[4].score = 0
           /\ res.categories[4].passed = FALSE)

\* The lookup timed out, the three other tasks gave passing results, and
\* the response was sent.
C3_Witness ==
  /\ Sent
  /\ WhoisTimedOut
  /\ \A i \in 1..3 : ev[TaskKeys[i]].status = "fulfilled" /\ res.categories[i].passed
  /\ res.categories[4].warnings = <<"WHOIS lookup failed.", "lookup: timeout">>

\* C4: for an https URL the promise of checkTLS is resolved exactly once,
\* with the payload of the first completion path to fire; paths firing
\* later neither replace nor repeat it.
C4_ExactlyOneTlsResult ==
  tls.socket /= "none" =>
    /\ tls.resolveCalls <= 1
    /\ tls.fired /= {} =>
         /\ tls.resolveCalls = 1
         /\ ev["tls"] = Fulfilled(tls.first)

\* All three paths have fired, the 'error' path first.
C4_Witness ==
  /\ tls.fired = {"connect", "error", "timeout"}
  /\ tls.first = tlsErrorPayload("ECONNRESET")
  /\ ev["tls"] = Fulfilled(tlsErrorPayload("ECONNRESET"))

\* C5: for an https URL, once checkTLS has produced its result the
\* evaluator has closed the socket it opened (socket.end or
\* socket.destroy), on each completion path.
C5_SocketClosedWithResult ==
  (tls.socket /= "none" /\ ev["tls"].status = "fulfilled")
    => tls.socket \in {"ended", "destroyed"}

\* A CategoryResult whose score is within its bounds and whose passed flag
\* is the threshold test of its score.
WellFormed(category) ==
  /\ category.maxScore = 25
  /\ category.score \in 0..category.maxScore
  /\ category.passed = (category.score >= 18)

\* C6: every CategoryResult an evaluator returns, and every category of a
\* response (the substitutes for rejected tasks included), has
\* 0 <= score <= maxScore = 25 and passed = (score >= 18).
C6_CategoriesWellFormed ==
  /\ \A k \in Evaluators : ev[k].status = "fulfilled" => WellFormed(ev[k].value)
  /\ Sent => \A i \in 1..Len(res.categories) : WellFormed(res.categories[i])

\* A response holding the result of a handshake whose penalties exceed 25
\* (an expired certificate, then a hostname missing from its SAN entries)
\* beside three substitutes.
C6_Witness ==
  /\ Sent
  /\ ev["tls"] = Fulfilled(tlsConnectPayload(
                   [ GoodConn EXCEPT !.protocol = "SSL", !.issuer = FALSE, !.days = -1,
                                     !.san = "mismatch" ]))
  /\ res.categories[1].score = 0
  /\ ev["whois"].status = "rejected"
  /\ res.categories[4].score = 0

CategoryScores == [ i \in 1..Len(res.categories) |-> res.categories[i].score ]

CategoryMaxScores == [ i \in 1..Len(res.categories) |-> res.categories[i].maxScore ]

\* C7: the total of a response is 100 * sum(score) / sum(maxScore) rounded
\* to the nearest integer (0 when sum(maxScore) is 0); it lies in 0..100,
\* does not decrease when a category score rises (by one, or to 25) nor
\* increase when it falls (by one, or to 0), is 0 when all four scores are 0
\* and 100 when all four are at their maximum.
C7_TotalIsRoundedPercentage ==
  Sent =>
    LET S == SumSeq(CategoryScores)
        M == SumSeq(CategoryMaxScores)
        t == res.score.total
        withScore(i, v) ==
          [ j \in 1..4 |-> [ score |-> IF j = i THEN v ELSE res.categories[j].score,
                             maxScore |-> res.categories[j].maxScore ] ]
        withoutMax == [ i \in 1..Len(res.categories) |->
                          [ res.categories[i] EXCEPT !.maxScore = 0 ] ]
    IN  /\ M > 0
        /\ 2 * M * t <= 200 * S + M
        /\ 200 * S + M < 2 * M * (t + 1)
        /\ t \in 0..100
        /\ (\A i \in 1..4 : res.categories[i].score = 0) => t = 0
        /\ (\A i \in 1..4 : res.categories[i].score = res.categories[i].maxScore) => t = 100
        /\ \A i \in 1..4 :
             \A v \in {0, res.categories[i].score - 1, res.categories[i].score + 1, 25}
                        \cap 0..25 :
             LET other == summarizeOverall(withScore(i, v)).total
             IN  /\ v >= res.categories[i].score => other >= t
                 /\ v <= res.categories[i].score => other <= t
        /\ summarizeOverall(withoutMax).total = 0

\* A response whose four categories sum to 59 of 100.
C7_Witness ==
  /\ Sent
  /\ SumSeq(CategoryScores) = 59
  /\ res.score.total = 59
  /\ \E i \in 1..4 : ev[TaskKeys[i]].status = "rejected"

\* C8: the rating of a response is Dangerous below a total of 50, Warning
\* from 50 to 59 and Safe from 60 on.
C8_RatingBoundaries ==
  Sent =>
    /\ res.score.total < 50 => res.score.rating = "Dangerous"
    /\ (res.score.total >= 50 /\ res.score.total < 60) => res.score.rating = "Warning"
    /\ res.score.total >= 60 => res.score.rating = "Safe"

\* A response at the lower boundary of Warning.
C8_Witness ==
  /\ Sent
  /\ res.score.total = 50
  /\ res.score.rating = "Warning"

\* The url of a request is missing, does not parse, or has a scheme other
\* than http and https.
InvalidUrl(u) ==
  \/ u \in {"", "not a url"}
  \/ u = "ftp://host.example/"

\* C9: an invalid url is answered 400 with an error message, and nothing is
\* sent on the network for it: no GET, no WHOIS query, no socket, no task.
C9_InvalidUrlRejectedBeforeNetwork ==
  (pc /= "idle" /\ InvalidUrl(url)) =>
    /\ res.status = 400
    /\ res.error /= ""
    /\ gets = 0
    /\ lookups = 0
    /\ tls.socket = "none"
    /\ \A k \in Evaluators : ev[k].status = "idle"

\* A request for an ftp url answered 400 with nothing sent on the network.
C9_Witness ==
  /\ pc = "responded"
  /\ url = "ftp://host.example/"
  /\ res.status = 400
  /\ res.error = "Only HTTP and HTTPS URLs can be checked by this service."
  /\ gets = 0

\* C10: fetchSiteResponse returns to the handler however the GET ended; the
\* pair it returns holds the response whenever the client obtained one
\* (directly or inside the error it raised), and holds the error exactly
\* when the client raised one.
C10_FetchNeverThrows ==
  pc \notin {"idle", "fetching"} /\ fetched.kind /= "none" =>
    /\ pc /= "crashed"
    /\ sharedContext.response = fetched.response
    /\ sharedContext.fetchError.present = (fetched.kind = "raise")
    /\ fetched.kind = "raise" => sharedContext.fetchError.message = fetched.message

\* The client raised an error that carries a response: both are kept.
C10_Witness ==
  /\ fetched.kind = "raise"
  /\ fetched.response.present
  /\ sharedContext.response.present
  /\ sharedContext.fetchError.present
  /\ pc = "responded"

\* The result of checkHeaders when it had a response to score.
HeadersScored ==
  /\ ev["headers"].status = "fulfilled"
  /\ "missing" \in DOMAIN ev["headers"].value.details

\* The weight the rubric gives the check of each label.
RubricWeight(label) ==
  CASE label = "HSTS (Strict-Transport-Security)" -> 5
    [] label = "Content-Security-Policy" -> 5
    [] label = "Clickjacking protection" -> 4
    [] label = "Referrer-Policy" -> 4
    [] label = "Permissions-Policy" -> 3
    [] label = "X-Content-Type-Options" -> 4

RubricLabels ==
  << "HSTS (Strict-Transport-Security)", "Content-Security-Policy",
     "Clickjacking protection", "Referrer-Policy", "Permissions-Policy",
     "X-Content-Type-Options" >>

\* C11: when checkHeaders has a response, its score is 25 minus the sum of
\* the weights (5, 5, 4, 4, 3, 4) of the checks that failed, each failed
\* check gives one warning and one label of details.missing, and the checks
\* do not interact: the five single-header checks fail exactly on their own
\* header, six valid headers give 25 with nothing missing, no header at all
\* gives 0 with the six labels missing.
C11_HeaderScoreIsWeightedSum ==
  HeadersScored =>
    LET r == ev["headers"].value
        missing == r.details.missing
        h == r.details.presentHeaders
        isMissing(label) == \E i \in 1..Len(missing) : missing[i] = label
    IN  /\ r.score = 25 - SumSeq([ i \in 1..Len(missing) |-> RubricWeight(missing[i]) ])
        /\ Len(r.warnings) = Len(missing)
        /\ \A i, j \in 1..Len(missing) : missing[i] = missing[j] => i = j
        /\ \A i \in 1..Len(missing) : \E j \in 1..6 : missing[i] = RubricLabels[j]
        /\ isMissing(RubricLabels[1]) = (h.hsts /= "valid")
        /\ isMissing(RubricLabels[2]) = (h.csp = "absent")
        /\ isMissing(RubricLabels[4]) = (h.referrer /= "valid")
        /\ isMissing(RubricLabels[5]) = (h.permissions = "absent")
        /\ isMissing(RubricLabels[6]) = (h.xcto /= "nosniff")
        /\ (h.hsts = "valid" /\ h.csp /= "absent" /\ h.xfo = "deny"
              /\ h.referrer = "valid" /\ h.permissions = "present" /\ h.xcto = "nosniff")
             => (r.score = 25 /\ missing = <<>> /\ r.warnings = <<>>)
        /\ (h.hsts = "absent" /\ h.csp = "absent" /\ h.xfo = "absent"
              /\ h.referrer = "absent" /\ h.permissions = "absent" /\ h.xcto = "absent")
             => (r.score = 0 /\ missing = RubricLabels)

\* A response that misses Permissions-Policy and has an invalid HSTS value:
\* 25 - 5 - 3 = 17, two labels, two warnings.
C11_Witness ==
  /\ HeadersScored
  /\ ev["headers"].value.details.missing
       = << "HSTS (Strict-Transport-Security)", "Permissions-Policy" >>
  /\ ev["headers"].value.details.presentHeaders.hsts = "invalid"
  /\ ev["headers"].value.score = 17
  /\ Len(ev["headers"].value.warnings) = 2

\* C12: the clickjacking check is satisfied whenever X-Frame-Options holds
\* sameorigin or deny, or the Content-Security-Policy declares
\* frame-ancestors, whatever X-Frame-Options is then.
C12_ClickjackingSatisfiedByEither ==
  HeadersScored =>
    LET r == ev["headers"].value
        h == r.details.presentHeaders
    IN  (h.xfo = "deny" \/ h.csp = "frame-ancestors")
          => \A i \in 1..Len(r.details.missing) :
               r.details.missing[i] /= "Clickjacking protection"

\* The result of checkCookies when it had a response to score.
CookiesScored ==
  /\ ev["cookies"].status = "fulfilled"
  /\ "totalCookies" \in DOMAIN ev["cookies"].value.details

TlsInspected ==
  /\ ev["tls"].status = "fulfilled"
  /\ "daysUntilExpiry" \in DOMAIN ev["tls"].value.details

Contains(warnings, w) == \E i \in 1..Len(warnings) : warnings[i] = w

\* C14: when the handshake succeeded and the certificate read is expired,
\* the result of checkTLS has score 0 and the warning 'Certificate is
\* expired.', whatever the protocol, the issuer and the SAN entries are and
\* whatever is deducted or capped after the score was forced to 0.
C14_ExpiredCertificateScoresZero ==
  TlsInspected =>
    LET r == ev["tls"].value
    IN  (r.details.validTo = "date" /\ r.details.daysUntilExpiry < 0)
          => /\ r.score = 0
             /\ r.passed = FALSE
             /\ Contains(r.warnings, "Certificate is expired.")

\* An expired certificate with nothing else wrong but a hostname missing
\* from its SAN entries, whose 5 points are deducted after the forced 0.
C14_Witness ==
  /\ TlsInspected
  /\ ev["tls"].value.details.daysUntilExpiry = -1
  /\ ev["tls"].value.details.validTo = "date"
  /\ ev["tls"].value.details.protocol = "TLS"
  /\ ev["tls"].value.score = 0
  /\ ev["tls"].value.warnings
       = << "Certificate is expired.",
            "Hostname is not explicitly listed in the certificate SAN entries." >>

\* The response of the shared fetch carries a cookie whose Expires
\* attribute does not parse.
SharedCookieExpiresUnparsable ==
  /\ pc \in {"evaluating", "responded"}
  /\ sharedContext.response.present
  /\ \E i \in 1..Len(sharedContext.response.setCookie) :
       sharedContext.response.setCookie[i].expires = "invalid"

\* The result of checkWhois when it had a record to score.
WhoisScored ==
  /\ ev["whois"].status = "fulfilled"
  /\ "creationDate" \in DOMAIN ev["whois"].value.details

\* C15: one unparsable field of an otherwise evaluable input (the
\* expiration date of the certificate, a date of the WHOIS record, the
\* Expires attribute of a cookie) leaves the evaluator with its normally
\* computed, partially penalized result: it does not throw, and the
\* category of the response is not the aggregator's substitute.
C15_UnparsableFieldKeepsResult ==
  /\ SharedCookieExpiresUnparsable =>
       /\ ev["cookies"].status = "fulfilled"
       /\ Sent => res.categories[3] = ev["cookies"].value
  /\ (TlsInspected
        /\ ev["tls"].value.warnings = << "Unable to parse certificate expiration date." >>)
       => ev["tls"].value.score = 21
  /\ (WhoisScored
        /\ ev["whois"].value.warnings = << "Unable to determine domain creation date." >>)
       => ev["whois"].value.score = 19

\* C16: for a record that is not empty, the score of checkWhois is 25 minus
\* one age penalty (12 below 30 days, else 6 below 180 days, else 0; 6
\* without a usable creation date), minus one expiry penalty (10 at 0 days
\* left or fewer, else 6 up to 30 days, else 0; 5 without a usable expiry
\* date), minus 3 without a registrar; each penalty applied adds one
\* warning, and the difference is never negative.
C16_WhoisPenalties ==
  WhoisScored =>
    LET r == ev["whois"].value
        d == r.details
        age == IF d.creationDate = "absent" THEN 6
               ELSE IF d.domainAgeDays < 30 THEN 12
               ELSE IF d.domainAgeDays < 180 THEN 6 ELSE 0
        expiry == IF d.expiryDate = "absent" THEN 5
                  ELSE IF d.daysUntilExpiry <= 0 THEN 10
                  ELSE IF d.daysUntilExpiry <= 30 THEN 6 ELSE 0
        registrar == IF d.registrar = "absent" THEN 3 ELSE 0
        applied == (IF age > 0 THEN 1 ELSE 0) + (IF expiry > 0 THEN 1 ELSE 0)
                   + (IF registrar > 0 THEN 1 ELSE 0)
    IN  /\ 25 - age - expiry - registrar >= 0
        /\ r.score = 25 - age - expiry - registrar
        /\ Len(r.warnings) = applied

\* A domain registered 29 days ago that has expired and names no
\* registrar: 25 - 12 - 10 - 3 = 0 with three warnings.
C16_Witness ==
  /\ WhoisScored
  /\ ev["whois"].value.details.creationDate = "date"
  /\ ev["whois"].value.details.domainAgeDays = 29
  /\ ev["whois"].value.details.daysUntilExpiry = 0
  /\ ev["whois"].value.details.expiryDate = "date"
  /\ ev["whois"].value.score = 0
  /\ Len(ev["whois"].value.warnings) = 3

\* The shared fetch has ended and the tasks have been started.
TasksStarted == pc \in {"evaluating", "responded"} /\ fetched.kind /= "none"

\* A step taken once the tasks are started leaves the shared context as it
\* is and issues no further GET.
ContextAndGetsKept ==
  pc \in {"evaluating", "responded"} => (sharedContext' = sharedContext /\ gets' = gets)

\* C17: when the shared fetch gave a response, checkHeaders and checkCookies
\* both work on it and the request issues one GET in all; when it gave
\* none, each of the two issues one GET of its own, whatever the other one
\* does and without a second attempt, three GETs in all; and no step of an
\* evaluator changes the shared context.
C17_SharedResponseReused ==
  /\ [](TasksStarted =>
          /\ gets <= 3
          /\ sharedContext.response.present =>
               /\ gets = 1
               /\ ev["headers"] = evalHeaders(sharedContext.response)
               /\ ev["cookies"] = evalCookies(sharedContext.response)
          /\ ~sharedContext.response.present => gets = 3)
  /\ [][ContextAndGetsKept]_vars

\* Without a shared response the two evaluators fetched on their own and
\* ended differently: one scored the response it got, the other got none.
C17_Witness ==
  /\ pc = "responded"
  /\ ~sharedContext.response.present
  /\ gets = 3
  /\ HeadersScored
  /\ ev["cookies"] = Fulfilled(cookiesUnavailable("ECONNRESET"))

\* C18: in every CategoryResult, of an evaluator on any of its paths or
\* substituted for a rejected task, passed = false comes with at least one
\* warning; an empty warnings list only comes with a passing score.
C18_FailedHasWarnings ==
  /\ \A k \in Evaluators :
       (ev[k].status = "fulfilled" /\ ~ev[k].value.passed) => Len(ev[k].value.warnings) >= 1
  /\ Sent => \A i \in 1..Len(res.categories) :
               ~res.categories[i].passed => Len(res.categories[i].warnings) >= 1

\* A response with a failing substitute for the rejected TLS task next to
\* a headers result that passed without any warning.
C18_Witness ==
  /\ Sent
  /\ ev["tls"].status = "rejected"
  /\ ~res.categories[1].passed
  /\ Len(res.categories[1].warnings) >= 1
  /\ res.categories[2].passed
  /\ res.categories[2].warnings = <<>>

=============================================================================
